---- MODULE Spec2Model ----
(***************************************************************************)
(* Carbon footprint estimator: the carbon resolution engine               *)
(* (src/src/services/carbonService.ts), the LLM response validator and    *)
(* fallback selector (src/src/services/llmService.ts), the vision         *)
(* service (src/unnamed/part_001) and the handlers of POST /estimate,     *)
(* POST /estimate/image and POST /estimate/batch (src/unnamed/part_000).  *)
(*                                                                         *)
(* Representation.  A JavaScript string is a sequence of one-character    *)
(* strings, so that toLowerCase, replace, trim, match and includes are    *)
(* computed character by character.  A mass is an exact decimal fraction  *)
(* [num, den]; carbon_per_kg is kept in tenths of a kg CO2 per kg and     *)
(* carbon_kg in hundredths of a kg CO2 (the two decimals that             *)
(* Math.round(x * 100) / 100 leaves).  Products are exact decimals: the   *)
(* binary rounding error of IEEE doubles is not modelled.  A JavaScript   *)
(* value that may be undefined or NaN is a record tagged with its type,  *)
(* and so is every field of an ingredient object that came from JSON.     *)
(***************************************************************************)
EXTENDS Integers, Sequences, FiniteSets, TLC

VARIABLES
  pc,               \* position of the run
  name, key, rekey, \* normalizer: raw name, its key, the key of the key
  quantity, mass,   \* quantity parser: text and parsed mass
  ingredient, normalizedName, carbonData, estimatedWeight, resolved,
                    \* one element of calculateCarbonFootprint's map
  body, sanitizedDish, upstream, llmResponse, response,
                    \* POST /estimate: request body, trimmed dish, what the
                    \* completion call produced, analyzeDish's result, reply
  file, visionResponse,
                    \* POST /estimate/image: req.file, analyzeImage's result
  dishes, settled,  \* POST /estimate/batch: req.body.dishes, and per dish
                    \* what its promise settled with
  inferenceCalls,   \* the completion calls issued so far, in order
  table,            \* the module-level CARBON_DATA object, shared by all requests
  requests,         \* requests in flight at once: the locals of each handler run
  stats             \* the reply of GET /carbon-data/stats

normVars == <<name, key, rekey>>
qtyVars  == <<quantity, mass>>
ingrVars == <<ingredient, normalizedName, carbonData, estimatedWeight, resolved>>
reqVars  == <<body, sanitizedDish, upstream, llmResponse, response>>
apiVars  == <<file, visionResponse, dishes, settled, inferenceCalls>>
concVars == <<table, requests, stats>>
vars == <<pc, normVars, qtyVars, ingrVars, reqVars, apiVars, concVars>>

\* ------------------------------------------------------------ JS values

Number(v) == [type |-> "number", val |-> v]
String(s) == [type |-> "string", val |-> s]
NaN == [type |-> "NaN"]
Undefined == [type |-> "undefined"]
Null == [type |-> "null"]

\* !v is false; empty is the empty string in the representation of v's text
Truthy(v, empty) ==
  CASE v.type = "string" -> v.val # empty
    [] v.type = "number" -> v.val # 0
    [] OTHER -> FALSE

\* ------------------------------------------------------------------ text

UpperCase == <<"A","B","C","D","E","F","G","H","I","J","K","L","M",
               "N","O","P","Q","R","S","T","U","V","W","X","Y","Z">>
LowerCase == <<"a","b","c","d","e","f","g","h","i","j","k","l","m",
               "n","o","p","q","r","s","t","u","v","w","x","y","z">>
Digits == <<"0","1","2","3","4","5","6","7","8","9">>

Letters == {LowerCase[i] : i \in 1..Len(LowerCase)}
WhiteSpace == {" ", "\t", "\n"}
IsDigit(c) == \E i \in 1..Len(Digits) : Digits[i] = c
DigitValue(c) == (CHOOSE i \in 1..Len(Digits) : Digits[i] = c) - 1

\* String.prototype.toLowerCase
toLowerCase(s) ==
  [i \in 1..Len(s) |->
     IF \E j \in 1..Len(UpperCase) : UpperCase[j] = s[i]
       THEN LowerCase[CHOOSE j \in 1..Len(UpperCase) : UpperCase[j] = s[i]]
       ELSE s[i]]

\* String.prototype.includes: t occurs in s (the empty t occurs in every s)
includes(s, t) ==
  \E i \in 0..(Len(s) - Len(t)) : SubSeq(s, i + 1, i + Len(t)) = t

RECURSIVE trimStart(_)
trimStart(s) ==
  IF s # <<>> /\ Head(s) \in WhiteSpace THEN trimStart(Tail(s)) ELSE s

RECURSIVE trimEnd(_)
trimEnd(s) ==
  IF s # <<>> /\ s[Len(s)] \in WhiteSpace
    THEN trimEnd(SubSeq(s, 1, Len(s) - 1)) ELSE s

\* String.prototype.trim
trim(s) == trimEnd(trimStart(s))

RECURSIVE Concat(_)
Concat(ws) == IF ws = <<>> THEN <<>> ELSE Head(ws) \o Concat(Tail(ws))

RECURSIVE SeqsUpTo(_, _)
SeqsUpTo(S, n) ==
  IF n = 0 THEN {<<>>}
  ELSE LET shorter == SeqsUpTo(S, n - 1)
       IN shorter \cup {Append(t, c) : t \in shorter, c \in S}

\* ------------------------------------------------------- name normalizer

\* .replace(/s$/, ''): one trailing "s" is removed
stripPluralS(s) ==
  IF s # <<>> /\ s[Len(s)] = "s" THEN SubSeq(s, 1, Len(s) - 1) ELSE s

\* .replace(/s+$/, ''): every trailing "s" is removed
RECURSIVE stripEveryS(_)
stripEveryS(s) ==
  IF s # <<>> /\ s[Len(s)] = "s" THEN stripEveryS(SubSeq(s, 1, Len(s) - 1)) ELSE s

KeepsChar(c) == c \in Letters \/ c \in WhiteSpace

\* .replace(/[^a-z\s]/g, '')
removeSpecial(s) == SelectSeq(s, KeepsChar)

normalizeIngredientName_sPlus(rawName) ==
  trim(removeSpecial(stripEveryS(toLowerCase(rawName))))

normalizeIngredientName(rawName) ==
  trim(removeSpecial(stripPluralS(toLowerCase(rawName))))

\* ------------------------------------------------------- quantity parser

Fraction(n, d) == [num |-> n, den |-> d]
Scale(x, n, d) == [num |-> x.num * n, den |-> x.den * d]
FrLess(x, y) == x.num * y.den < y.num * x.den
FrEq(x, y) == x.num * y.den = y.num * x.den
FrMin(x, y) == IF FrLess(y, x) THEN y ELSE x
FrMax(x, y) == IF FrLess(x, y) THEN y ELSE x

RECURSIVE digitRunEnd(_, _)
\* the last index of the run of digits that starts at i
digitRunEnd(s, i) ==
  IF i < Len(s) /\ IsDigit(s[i + 1]) THEN digitRunEnd(s, i + 1) ELSE i

\* .match(/(\d+(?:\.\d+)?)/): the leftmost number, <<>> when there is none
numberMatch(s) ==
  IF ~\E i \in 1..Len(s) : IsDigit(s[i]) THEN <<>>
  ELSE LET i == CHOOSE a \in 1..Len(s) :
                  IsDigit(s[a]) /\ \A b \in 1..(a - 1) : ~IsDigit(s[b])
           j == digitRunEnd(s, i)
           k == IF j + 2 <= Len(s) /\ s[j + 1] = "." /\ IsDigit(s[j + 2])
                  THEN digitRunEnd(s, j + 2) ELSE j
       IN SubSeq(s, i, k)

RECURSIVE digitsValue(_)
digitsValue(ds) ==
  IF ds = <<>> THEN 0
  ELSE 10 * digitsValue(SubSeq(ds, 1, Len(ds) - 1)) + DigitValue(ds[Len(ds)])

RECURSIVE pow10(_)
pow10(n) == IF n = 0 THEN 1 ELSE 10 * pow10(n - 1)

\* parseFloat of a text matched by numberMatch
parseFloat(t) ==
  LET ds == SelectSeq(t, IsDigit)
      fracLen == IF \E i \in 1..Len(t) : t[i] = "."
                   THEN Len(t) - (CHOOSE i \in 1..Len(t) : t[i] = ".") ELSE 0
  IN Fraction(digitsValue(ds), pow10(fracLen))

baseAmountOf(normalizedQuantity) ==
  LET m == numberMatch(normalizedQuantity)
  IN IF m # <<>> THEN parseFloat(m) ELSE Fraction(1, 10)

\* baseAmount / 1000
gramsToKg_per100(baseAmount) == Scale(baseAmount, 1, 100)

gramsToKg(baseAmount) == Scale(baseAmount, 1, 1000)

\* Math.max(0.05, Math.min(baseAmount * 0.1, 0.5)) without the Math.max
servingSize_noFloor(baseAmount) ==
  FrMin(Scale(baseAmount, 1, 10), Fraction(5, 10))

\* Math.max(0.05, Math.min(baseAmount * 0.1, 0.5)) without the Math.min
servingSize_noCeiling(baseAmount) ==
  FrMax(Fraction(5, 100), Scale(baseAmount, 1, 10))

\* Math.max(0.05, Math.min(baseAmount * 0.1, 0.5))
servingSize(baseAmount) ==
  FrMax(Fraction(5, 100), FrMin(Scale(baseAmount, 1, 10), Fraction(5, 10)))

parseQuantityToKg(quantityText) ==
  LET q == toLowerCase(quantityText)
      baseAmount == baseAmountOf(q)
  IN IF includes(q, <<"k","g">>) THEN baseAmount
     ELSE IF includes(q, <<"g">>) /\ ~includes(q, <<"k","g">>) THEN gramsToKg(baseAmount)
     ELSE IF includes(q, <<"l","b">>) \/ includes(q, <<"p","o","u","n","d">>)
       THEN Scale(baseAmount, 453592, 1000000)
     ELSE IF includes(q, <<"o","z">>) \/ includes(q, <<"o","u","n","c","e">>)
       THEN Scale(baseAmount, 283495, 10000000)
     ELSE IF includes(q, <<"c","u","p">>) THEN Scale(baseAmount, 24, 100)
     ELSE IF includes(q, <<"t","b","s","p">>) \/ includes(q, <<"t","a","b","l","e","s","p","o","o","n">>)
       THEN Scale(baseAmount, 15, 1000)
     ELSE IF includes(q, <<"t","s","p">>) \/ includes(q, <<"t","e","a","s","p","o","o","n">>)
       THEN Scale(baseAmount, 5, 1000)
     ELSE IF includes(q, <<"s","m","a","l","l">>) THEN Fraction(5, 100)
     ELSE IF includes(q, <<"m","e","d","i","u","m">>) THEN Fraction(1, 10)
     ELSE IF includes(q, <<"l","a","r","g","e">>) THEN Fraction(2, 10)
     ELSE IF includes(q, <<"p","i","e","c","e">>) \/ includes(q, <<"i","t","e","m">>) THEN Fraction(1, 10)
     ELSE servingSize(baseAmount)

\* ------------------------------------------------- emissions reference

\* CARBON_DATA in declaration order (the order Object.entries walks);
\* carbon_per_kg in tenths of a kg CO2 per kg
CARBON_DATA == <<
    [key |-> <<"b","e","e","f">>, carbon_per_kg |-> 600, category |-> "meat"],
    [key |-> <<"l","a","m","b">>, carbon_per_kg |-> 392, category |-> "meat"],
    [key |-> <<"p","o","r","k">>, carbon_per_kg |-> 121, category |-> "meat"],
    [key |-> <<"c","h","i","c","k","e","n">>, carbon_per_kg |-> 69, category |-> "meat"],
    [key |-> <<"t","u","r","k","e","y">>, carbon_per_kg |-> 109, category |-> "meat"],
    [key |-> <<"f","i","s","h">>, carbon_per_kg |-> 61, category |-> "seafood"],
    [key |-> <<"s","a","l","m","o","n">>, carbon_per_kg |-> 119, category |-> "seafood"],
    [key |-> <<"t","u","n","a">>, carbon_per_kg |-> 61, category |-> "seafood"],
    [key |-> <<"s","h","r","i","m","p">>, carbon_per_kg |-> 182, category |-> "seafood"],
    [key |-> <<"e","g","g","s">>, carbon_per_kg |-> 42, category |-> "dairy"],
    [key |-> <<"c","h","e","e","s","e">>, carbon_per_kg |-> 135, category |-> "dairy"],
    [key |-> <<"m","i","l","k">>, carbon_per_kg |-> 32, category |-> "dairy"],
    [key |-> <<"y","o","g","u","r","t">>, carbon_per_kg |-> 22, category |-> "dairy"],
    [key |-> <<"b","u","t","t","e","r">>, carbon_per_kg |-> 238, category |-> "dairy"],
    [key |-> <<"r","i","c","e">>, carbon_per_kg |-> 27, category |-> "grains"],
    [key |-> <<"w","h","e","a","t">>, carbon_per_kg |-> 14, category |-> "grains"],
    [key |-> <<"b","r","e","a","d">>, carbon_per_kg |-> 16, category |-> "grains"],
    [key |-> <<"p","a","s","t","a">>, carbon_per_kg |-> 14, category |-> "grains"],
    [key |-> <<"p","o","t","a","t","o","e","s">>, carbon_per_kg |-> 5, category |-> "vegetables"],
    [key |-> <<"q","u","i","n","o","a">>, carbon_per_kg |-> 18, category |-> "grains"],
    [key |-> <<"o","a","t","s">>, carbon_per_kg |-> 16, category |-> "grains"],
    [key |-> <<"t","o","m","a","t","o","e","s">>, carbon_per_kg |-> 21, category |-> "vegetables"],
    [key |-> <<"o","n","i","o","n","s">>, carbon_per_kg |-> 5, category |-> "vegetables"],
    [key |-> <<"c","a","r","r","o","t","s">>, carbon_per_kg |-> 4, category |-> "vegetables"],
    [key |-> <<"b","r","o","c","c","o","l","i">>, carbon_per_kg |-> 40, category |-> "vegetables"],
    [key |-> <<"s","p","i","n","a","c","h">>, carbon_per_kg |-> 20, category |-> "vegetables"],
    [key |-> <<"l","e","t","t","u","c","e">>, carbon_per_kg |-> 13, category |-> "vegetables"],
    [key |-> <<"b","e","l","l"," ","p","e","p","p","e","r","s">>, carbon_per_kg |-> 28, category |-> "vegetables"],
    [key |-> <<"m","u","s","h","r","o","o","m","s">>, carbon_per_kg |-> 33, category |-> "vegetables"],
    [key |-> <<"b","e","a","n","s">>, carbon_per_kg |-> 20, category |-> "legumes"],
    [key |-> <<"l","e","n","t","i","l","s">>, carbon_per_kg |-> 9, category |-> "legumes"],
    [key |-> <<"c","h","i","c","k","p","e","a","s">>, carbon_per_kg |-> 10, category |-> "legumes"],
    [key |-> <<"a","l","m","o","n","d","s">>, carbon_per_kg |-> 88, category |-> "nuts"],
    [key |-> <<"p","e","a","n","u","t","s">>, carbon_per_kg |-> 32, category |-> "nuts"],
    [key |-> <<"o","l","i","v","e"," ","o","i","l">>, carbon_per_kg |-> 54, category |-> "oils"],
    [key |-> <<"v","e","g","e","t","a","b","l","e"," ","o","i","l">>, carbon_per_kg |-> 38, category |-> "oils"],
    [key |-> <<"c","o","c","o","n","u","t"," ","o","i","l">>, carbon_per_kg |-> 64, category |-> "oils"],
    [key |-> <<"s","p","i","c","e","s">>, carbon_per_kg |-> 20, category |-> "seasonings"],
    [key |-> <<"h","e","r","b","s">>, carbon_per_kg |-> 15, category |-> "seasonings"],
    [key |-> <<"g","a","r","l","i","c">>, carbon_per_kg |-> 6, category |-> "seasonings"],
    [key |-> <<"g","i","n","g","e","r">>, carbon_per_kg |-> 8, category |-> "seasonings"],
    [key |-> <<"s","u","g","a","r">>, carbon_per_kg |-> 18, category |-> "sweeteners"],
    [key |-> <<"h","o","n","e","y">>, carbon_per_kg |-> 14, category |-> "sweeteners"],
    [key |-> <<"a","p","p","l","e","s">>, carbon_per_kg |-> 4, category |-> "fruits"],
    [key |-> <<"b","a","n","a","n","a","s">>, carbon_per_kg |-> 7, category |-> "fruits"],
    [key |-> <<"o","r","a","n","g","e","s">>, carbon_per_kg |-> 4, category |-> "fruits"],
    [key |-> <<"l","e","m","o","n","s">>, carbon_per_kg |-> 5, category |-> "fruits"],
    [key |-> <<"c","o","c","o","n","u","t">>, carbon_per_kg |-> 17, category |-> "fruits"]
  >>

\* The keys CARBON_DATA inherits from Object.prototype that a normalized key
\* (lower-case letters and white space only) can spell: CARBON_DATA[k] reads
\* inherited properties too, and "constructor" is the only such name.
ObjectPrototypeKeys == {<<"c","o","n","s","t","r","u","c","t","o","r">>}

\* Object.prototype.constructor, the function Object: truthy, and no
\* carbon_per_kg or category property
ObjectConstructor == [function |-> "Object"]

\* obj.carbon_per_kg and obj.category: undefined when obj has no such property
carbonPerKgOf(obj) ==
  IF "carbon_per_kg" \in DOMAIN obj THEN Number(obj.carbon_per_kg) ELSE Undefined
categoryOf(obj) ==
  IF "category" \in DOMAIN obj THEN String(obj.category) ELSE Undefined

Entry(i) == [carbon_per_kg |-> CARBON_DATA[i].carbon_per_kg,
             category |-> CARBON_DATA[i].category]

categoryFallbacks == <<
    [category |-> "meat", carbon_per_kg |-> 150],
    [category |-> "seafood", carbon_per_kg |-> 80],
    [category |-> "dairy", carbon_per_kg |-> 80],
    [category |-> "vegetables", carbon_per_kg |-> 20],
    [category |-> "fruits", carbon_per_kg |-> 6],
    [category |-> "grains", carbon_per_kg |-> 15],
    [category |-> "legumes", carbon_per_kg |-> 15],
    [category |-> "nuts", carbon_per_kg |-> 60],
    [category |-> "oils", carbon_per_kg |-> 45],
    [category |-> "seasonings", carbon_per_kg |-> 18]
  >>

categoryKeywords == <<
    [category |-> "meat",
     keywords |-> <<<<"m","e","a","t">>, <<"b","e","e","f">>, <<"p","o","r","k">>, <<"l","a","m","b">>, <<"c","h","i","c","k","e","n">>, <<"t","u","r","k","e","y">>, <<"d","u","c","k">>, <<"b","a","c","o","n">>, <<"h","a","m">>, <<"s","a","u","s","a","g","e">>>>],
    [category |-> "seafood",
     keywords |-> <<<<"f","i","s","h">>, <<"s","a","l","m","o","n">>, <<"t","u","n","a">>, <<"c","o","d">>, <<"s","h","r","i","m","p">>, <<"c","r","a","b">>, <<"l","o","b","s","t","e","r">>, <<"s","e","a","f","o","o","d">>, <<"a","n","c","h","o","v","y">>>>],
    [category |-> "dairy",
     keywords |-> <<<<"m","i","l","k">>, <<"c","h","e","e","s","e">>, <<"y","o","g","u","r","t">>, <<"c","r","e","a","m">>, <<"b","u","t","t","e","r">>, <<"d","a","i","r","y">>>>],
    [category |-> "vegetables",
     keywords |-> <<<<"v","e","g","e","t","a","b","l","e">>, <<"c","a","r","r","o","t">>, <<"b","r","o","c","c","o","l","i">>, <<"s","p","i","n","a","c","h">>, <<"l","e","t","t","u","c","e">>, <<"t","o","m","a","t","o">>, <<"o","n","i","o","n">>, <<"p","e","p","p","e","r">>, <<"c","u","c","u","m","b","e","r">>>>],
    [category |-> "fruits",
     keywords |-> <<<<"f","r","u","i","t">>, <<"a","p","p","l","e">>, <<"b","a","n","a","n","a">>, <<"o","r","a","n","g","e">>, <<"b","e","r","r","y">>, <<"g","r","a","p","e">>, <<"m","a","n","g","o">>, <<"p","i","n","e","a","p","p","l","e">>>>],
    [category |-> "grains",
     keywords |-> <<<<"r","i","c","e">>, <<"w","h","e","a","t">>, <<"b","r","e","a","d">>, <<"p","a","s","t","a">>, <<"c","e","r","e","a","l">>, <<"o","a","t">>, <<"b","a","r","l","e","y">>, <<"q","u","i","n","o","a">>>>],
    [category |-> "legumes",
     keywords |-> <<<<"b","e","a","n">>, <<"l","e","n","t","i","l">>, <<"p","e","a">>, <<"c","h","i","c","k","p","e","a">>, <<"s","o","y">>>>],
    [category |-> "nuts",
     keywords |-> <<<<"n","u","t">>, <<"a","l","m","o","n","d">>, <<"w","a","l","n","u","t">>, <<"p","e","a","n","u","t">>, <<"c","a","s","h","e","w">>, <<"p","e","c","a","n">>>>],
    [category |-> "oils",
     keywords |-> <<<<"o","i","l">>, <<"f","a","t">>, <<"l","a","r","d">>>>],
    [category |-> "seasonings",
     keywords |-> <<<<"s","p","i","c","e">>, <<"h","e","r","b">>, <<"s","a","l","t">>, <<"p","e","p","p","e","r">>, <<"g","a","r","l","i","c">>, <<"g","i","n","g","e","r">>, <<"s","e","a","s","o","n","i","n","g">>>>]
  >>

\* the last category, in declaration order, one of whose keywords occurs in
\* the name
inferCategory_lastCategory(ingredientName) ==
  LET hit(i) == \E j \in 1..Len(categoryKeywords[i].keywords) :
                  includes(ingredientName, categoryKeywords[i].keywords[j])
  IN IF \E i \in 1..Len(categoryKeywords) : hit(i)
       THEN String(categoryKeywords[
              CHOOSE i \in 1..Len(categoryKeywords) :
                hit(i) /\ \A h \in (i + 1)..Len(categoryKeywords) : ~hit(h)].category)
       ELSE Null

\* the first category, in declaration order, one of whose keywords occurs in
\* the name; Null when there is none
inferCategory(ingredientName) ==
  LET hit(i) == \E j \in 1..Len(categoryKeywords[i].keywords) :
                  includes(ingredientName, categoryKeywords[i].keywords[j])
  IN IF \E i \in 1..Len(categoryKeywords) : hit(i)
       THEN String(categoryKeywords[
              CHOOSE i \in 1..Len(categoryKeywords) :
                hit(i) /\ \A h \in 1..(i - 1) : ~hit(h)].category)
       ELSE Null

ExactMatch(ingredientName) ==
  \E i \in 1..Len(CARBON_DATA) : CARBON_DATA[i].key = ingredientName

\* a scan that only looks for the key inside the name
PartialHit_keyInName(ingredientName, i) ==
  includes(ingredientName, CARBON_DATA[i].key)

PartialHit(ingredientName, i) ==
  \/ includes(ingredientName, CARBON_DATA[i].key)
  \/ includes(CARBON_DATA[i].key, ingredientName)

PartialMatch(ingredientName) ==
  \E i \in 1..Len(CARBON_DATA) : PartialHit(ingredientName, i)

UltimateFallback == [carbon_per_kg |-> 25, category |-> "unknown"]

\* the substring scan run before the direct lookup
findCarbonData_substringFirst(ingredientName) ==
  IF PartialMatch(ingredientName)
    THEN Entry(CHOOSE i \in 1..Len(CARBON_DATA) :
                 /\ PartialHit(ingredientName, i)
                 /\ \A h \in 1..(i - 1) : ~PartialHit(ingredientName, h))
  ELSE IF ExactMatch(ingredientName)
    THEN Entry(CHOOSE i \in 1..Len(CARBON_DATA) : CARBON_DATA[i].key = ingredientName)
  ELSE IF ingredientName \in ObjectPrototypeKeys THEN ObjectConstructor
  ELSE UltimateFallback

findCarbonData(ingredientName) ==
  IF ExactMatch(ingredientName)
    THEN Entry(CHOOSE i \in 1..Len(CARBON_DATA) : CARBON_DATA[i].key = ingredientName)
  ELSE IF ingredientName \in ObjectPrototypeKeys THEN ObjectConstructor
  ELSE IF PartialMatch(ingredientName)
    THEN Entry(CHOOSE i \in 1..Len(CARBON_DATA) :
                 /\ PartialHit(ingredientName, i)
                 /\ \A h \in 1..(i - 1) : ~PartialHit(ingredientName, h))
  ELSE LET inferredCategory == inferCategory(ingredientName)
       IN IF /\ inferredCategory # Null
             /\ \E i \in 1..Len(categoryFallbacks) :
                  /\ categoryFallbacks[i].category = inferredCategory.val
                  /\ categoryFallbacks[i].carbon_per_kg # 0
            THEN [carbon_per_kg |->
                    categoryFallbacks[CHOOSE i \in 1..Len(categoryFallbacks) :
                      categoryFallbacks[i].category = inferredCategory.val].carbon_per_kg,
                  category |-> inferredCategory.val]
            ELSE UltimateFallback

\* ------------------------------------------------------------ aggregator

RECURSIVE MulDiv(_, _, _)
\* quotient and remainder of a * b divided by d, for a, b >= 0 and d > 0,
\* one decimal digit of a at a time so that no intermediate value outgrows
\* 32-bit integers
MulDiv(a, b, d) ==
  IF a = 0 THEN [q |-> 0, r |-> 0]
  ELSE LET h == MulDiv(a \div 10, b, d)
           t == 10 * h.r + (a % 10) * (b % d)
       IN [q |-> 10 * h.q + (a % 10) * (b \div d) + t \div d, r |-> t % d]

\* Math.round(x) for x = a * b / d >= 0: halves go up
RoundHalfUp(a, b, d) ==
  LET m == MulDiv(a, b, d) IN m.q + (IF 2 * m.r >= d THEN 1 ELSE 0)

\* Math.round((carbon_per_kg * estimatedWeight) * 100) / 100, in hundredths;
\* carbonPerKg is a JS value (tenths when a number): undefined * w is NaN
roundedCarbon(carbonPerKg, estimatedKg) ==
  IF carbonPerKg.type # "number" THEN NaN
  ELSE Number(RoundHalfUp(carbonPerKg.val * 10, estimatedKg.num, estimatedKg.den))

\* a resolution that tries the category hint of the ingredient before the
\* absolute fallback
resolveIngredient_hintFirst(ing) ==
  LET found == findCarbonData(normalizeIngredientName(ing.name.val))
  IN IF /\ found = UltimateFallback
        /\ \E i \in 1..Len(categoryFallbacks) :
             categoryFallbacks[i].category = ing.category.val
       THEN [carbon_per_kg |->
               categoryFallbacks[CHOOSE i \in 1..Len(categoryFallbacks) :
                 categoryFallbacks[i].category = ing.category.val].carbon_per_kg,
             category |-> ing.category.val]
       ELSE found

\* const normalizedName = ...; const carbonData = this.findCarbonData(normalizedName)
resolveIngredient(ing) == findCarbonData(normalizeIngredientName(ing.name.val))

\* a callback that copies the category of its input
calculateOne_inputCategory(ing) ==
  LET data == resolveIngredient(ing)
      estimatedKg == parseQuantityToKg(ing.estimated_quantity.val)
  IN [name |-> ing.name,
      carbon_kg |-> roundedCarbon(carbonPerKgOf(data), estimatedKg),
      quantity |-> ing.estimated_quantity,
      category |-> ing.category]

\* the callback of calculateCarbonFootprint's map, on one raw ingredient
calculateOne(ing) ==
  LET data == resolveIngredient(ing)
      estimatedKg == parseQuantityToKg(ing.estimated_quantity.val)
  IN [name |-> ing.name,
      carbon_kg |-> roundedCarbon(carbonPerKgOf(data), estimatedKg),
      quantity |-> ing.estimated_quantity,
      category |-> categoryOf(data)]

\* name.toLowerCase() in normalizeIngredientName, or quantity.toLowerCase()
\* in parseQuantityToKg, is not a function: the callback throws a TypeError
ThrowsTypeError(ing) ==
  ing.name.type # "string" \/ ing.estimated_quantity.type # "string"

\* calculateCarbonFootprint throws on this list
CalculationThrows(ingredientNames) ==
  \E i \in 1..Len(ingredientNames) : ThrowsTypeError(ingredientNames[i])

\* the list calculateCarbonFootprint returns when no callback throws
calculateCarbonFootprint(ingredientNames) ==
  [i \in 1..Len(ingredientNames) |-> calculateOne(ingredientNames[i])]

RECURSIVE sumCarbon(_)
\* ingredients.reduce((sum, ingredient) => sum + ingredient.carbon_kg, 0)
sumCarbon(ingredients) ==
  IF ingredients = <<>> THEN Number(0)
  ELSE LET rest == sumCarbon(SubSeq(ingredients, 1, Len(ingredients) - 1))
           last == ingredients[Len(ingredients)].carbon_kg
       IN IF rest.type # "number" \/ last.type # "number" THEN NaN
          ELSE Number(rest.val + last.val)

\* Math.round(total * 100) / 100: total is a sum of hundredths, which the
\* rounding leaves as it is; NaN stays NaN
getTotalCarbonFootprint(ingredients) == sumCarbon(ingredients)

\* ----------------------------------------------------------- LLM service

\* an ingredient object whose three fields are strings
Raw(n, q, c) ==
  [name |-> String(n), estimated_quantity |-> String(q), category |-> String(c)]

\* fallbackResponses, in declaration order; confidence in hundredths
fallbackResponses == <<
  [pattern |-> <<"p","i","z","z","a">>,
   response |->
     [ingredients |-> <<Raw(<<"w","h","e","a","t"," ","f","l","o","u","r">>, <<"1","5","0","g">>, "grains"),
                        Raw(<<"m","o","z","z","a","r","e","l","l","a"," ","c","h","e","e","s","e">>, <<"1","0","0","g">>, "dairy"),
                        Raw(<<"t","o","m","a","t","o"," ","s","a","u","c","e">>, <<"8","0","g">>, "vegetables"),
                        Raw(<<"o","l","i","v","e"," ","o","i","l">>, <<"1","5","g">>, "oils"),
                        Raw(<<"h","e","r","b","s">>, <<"5","g">>, "seasonings")>>,
      confidence |-> 75]],
  [pattern |-> <<"b","u","r","g","e","r">>,
   response |->
     [ingredients |-> <<Raw(<<"b","e","e","f">>, <<"1","5","0","g">>, "meat"),
                        Raw(<<"b","r","e","a","d">>, <<"8","0","g">>, "grains"),
                        Raw(<<"c","h","e","e","s","e">>, <<"3","0","g">>, "dairy"),
                        Raw(<<"l","e","t","t","u","c","e">>, <<"2","0","g">>, "vegetables"),
                        Raw(<<"t","o","m","a","t","o","e","s">>, <<"3","0","g">>, "vegetables"),
                        Raw(<<"o","n","i","o","n","s">>, <<"1","5","g">>, "vegetables")>>,
      confidence |-> 80]],
  [pattern |-> <<"p","a","s","t","a">>,
   response |->
     [ingredients |-> <<Raw(<<"p","a","s","t","a">>, <<"1","0","0","g">>, "grains"),
                        Raw(<<"t","o","m","a","t","o"," ","s","a","u","c","e">>, <<"1","2","0","g">>, "vegetables"),
                        Raw(<<"o","l","i","v","e"," ","o","i","l">>, <<"1","5","g">>, "oils"),
                        Raw(<<"g","a","r","l","i","c">>, <<"5","g">>, "seasonings"),
                        Raw(<<"h","e","r","b","s">>, <<"3","g">>, "seasonings")>>,
      confidence |-> 70]]
  >>

\* the generic meal with the confidence of the image fallback
GenericResponse_lowConfidence ==
  [ingredients |-> <<Raw(<<"m","i","x","e","d"," ","i","n","g","r","e","d","i","e","n","t","s">>, <<"2","0","0","g">>, "unknown"),
                     Raw(<<"c","o","o","k","i","n","g"," ","o","i","l">>, <<"1","0","g">>, "oils"),
                     Raw(<<"s","e","a","s","o","n","i","n","g","s">>, <<"5","g">>, "seasonings")>>,
   confidence |-> 30]

\* "Ultimate fallback - generic meal"
GenericResponse ==
  [ingredients |-> <<Raw(<<"m","i","x","e","d"," ","i","n","g","r","e","d","i","e","n","t","s">>, <<"2","0","0","g">>, "unknown"),
                     Raw(<<"c","o","o","k","i","n","g"," ","o","i","l">>, <<"1","0","g">>, "oils"),
                     Raw(<<"s","e","a","s","o","n","i","n","g","s">>, <<"5","g">>, "seasonings")>>,
   confidence |-> 50]

PatternHit(normalizedDish, i) == includes(normalizedDish, fallbackResponses[i].pattern)

\* the last matching pattern instead of the first
getFallbackResponse_lastMatch(dishName) ==
  LET normalizedDish == toLowerCase(dishName)
  IN IF \E i \in 1..Len(fallbackResponses) : PatternHit(normalizedDish, i)
       THEN fallbackResponses[
              CHOOSE i \in 1..Len(fallbackResponses) :
                /\ PatternHit(normalizedDish, i)
                /\ \A h \in (i + 1)..Len(fallbackResponses) : ~PatternHit(normalizedDish, h)
            ].response
       ELSE GenericResponse

getFallbackResponse(dishName) ==
  LET normalizedDish == toLowerCase(dishName)
  IN IF \E i \in 1..Len(fallbackResponses) : PatternHit(normalizedDish, i)
       THEN fallbackResponses[
              CHOOSE i \in 1..Len(fallbackResponses) :
                /\ PatternHit(normalizedDish, i)
                /\ \A h \in 1..(i - 1) : ~PatternHit(normalizedDish, h)
            ].response
       ELSE GenericResponse

\* A parsed payload is Null, a Number, or
\* [type |-> "object", ingredients |-> x, confidence |-> y] with x an
\* [type |-> "array", items |-> <<...>>] or another JS value and y a JS value.

\* validateLLMResponse returns without throwing
validateLLMResponse(payload) ==
  /\ payload.type = "object"
  /\ payload.ingredients.type = "array"
  /\ payload.confidence.type = "number"
  /\ payload.confidence.val >= 0
  /\ payload.confidence.val <= 100
  /\ \A i \in 1..Len(payload.ingredients.items) :
       LET it == payload.ingredients.items[i]
       IN /\ Truthy(it.name, <<>>)
          /\ Truthy(it.estimated_quantity, <<>>)
          /\ Truthy(it.category, "")

\* What the awaited completion call produced: it threw, it had no content,
\* its content was no JSON, or JSON.parse gave a payload.
Throws == [kind |-> "throws"]
NoContent == [kind |-> "no content"]
Unparsable == [kind |-> "unparsable"]
Parsed(payload) == [kind |-> "parsed", value |-> payload]

\* analyzeDish after the completion call: the parsed payload when all of the
\* try block passes, the catch block's fallback otherwise
analyzeDish(dishName, outcome) ==
  IF outcome.kind = "parsed" /\ validateLLMResponse(outcome.value)
    THEN [ingredients |-> outcome.value.ingredients.items,
          confidence |-> outcome.value.confidence.val]
    ELSE getFallbackResponse(dishName)

\* ------------------------------------------------------- POST /estimate

DishMax == 200

\* estimateRequestSchema.parse(req.body) passes
SchemaAccepts(b) == Len(b.dish) >= 1 /\ Len(b.dish) <= DishMax

\* a handler without its check of the trimmed dish
HandlerAccepts_untrimmed(b) == SchemaAccepts(b)

\* the handler throws no AppError before the LLM call
HandlerAccepts(b) == SchemaAccepts(b) /\ trim(b.dish) # <<>>

BadRequest == [status |-> 400]

\* errorHandler on an error that is no AppError
InternalError == [status |-> 500]

\* the CarbonEstimate the handler sends
Estimate(dish, llm) ==
  LET ingredients == calculateCarbonFootprint(llm.ingredients)
  IN [status |-> 200,
      dish |-> dish,
      estimated_carbon_kg |-> getTotalCarbonFootprint(ingredients),
      ingredients |-> ingredients,
      confidence |-> llm.confidence,
      methodology |-> "LLM ingredient inference + carbon database lookup"]


\* the completion calls, as the upstream model sees them
TextCall(dish) == [capability |-> "text", dish |-> dish]
VisionCall(mimeType) == [capability |-> "vision", mimeType |-> mimeType]

\* -------------------------------------------------------- vision service

\* A parsed vision payload is Null, a Number, or
\* [type |-> "object", dish_name |-> d, ingredients |-> x, confidence |-> y].

\* a validation that takes any dish_name
validateVisionResponse_anyDishName(payload) ==
  /\ payload.type = "object"
  /\ payload.ingredients.type = "array"
  /\ payload.confidence.type = "number"
  /\ payload.confidence.val >= 0
  /\ payload.confidence.val <= 100
  /\ \A i \in 1..Len(payload.ingredients.items) :
       LET it == payload.ingredients.items[i]
       IN /\ Truthy(it.name, <<>>)
          /\ Truthy(it.estimated_quantity, <<>>)
          /\ Truthy(it.category, "")

\* validateVisionResponse returns without throwing
validateVisionResponse(payload) ==
  /\ payload.type = "object"
  /\ Truthy(payload.dish_name, <<>>)
  /\ payload.dish_name.type = "string"
  /\ payload.ingredients.type = "array"
  /\ payload.confidence.type = "number"
  /\ payload.confidence.val >= 0
  /\ payload.confidence.val <= 100
  /\ \A i \in 1..Len(payload.ingredients.items) :
       LET it == payload.ingredients.items[i]
       IN /\ Truthy(it.name, <<>>)
          /\ Truthy(it.estimated_quantity, <<>>)
          /\ Truthy(it.category, "")

getFallbackVisionResponse ==
  [dish_name |-> String(<<"U","n","k","n","o","w","n"," ","D","i","s","h">>),
   ingredients |-> <<Raw(<<"m","i","x","e","d"," ","i","n","g","r","e","d","i","e","n","t","s">>, <<"2","0","0","g">>, "unknown"),
                     Raw(<<"c","o","o","k","i","n","g"," ","o","i","l">>, <<"1","0","g">>, "oils"),
                     Raw(<<"s","e","a","s","o","n","i","n","g","s">>, <<"5","g">>, "seasonings")>>,
   confidence |-> 30]

\* analyzeImage after the completion call: the parsed payload when all of the
\* try block passes, the catch block's fallback otherwise
analyzeImage(outcome) ==
  IF outcome.kind = "parsed" /\ validateVisionResponse(outcome.value)
    THEN [dish_name |-> outcome.value.dish_name,
          ingredients |-> outcome.value.ingredients.items,
          confidence |-> outcome.value.confidence.val]
    ELSE getFallbackVisionResponse

\* const maxSize = 10 * 1024 * 1024, in bytes
maxSize == 10485760

allowedTypes == {"image/jpeg", "image/jpg", "image/png", "image/webp"}

\* validateImageFile(file).isValid
validateImageFile(f) == f.size <= maxSize /\ f.mimetype \in allowedTypes

\* errorHandler on multer's "File too large"
PayloadTooLarge == [status |-> 413]

\* What upload.single('image') and the handler's two checks answer to an
\* upload that does not pass; fileFilter runs before the size limit is hit.
ImageRejection(f) ==
  IF f = Null THEN BadRequest
  ELSE IF f.mimetype \notin allowedTypes THEN BadRequest
  ELSE PayloadTooLarge

\* ------------------------------------------------- POST /estimate/image

ImageAccepts(f) == f # Null /\ validateImageFile(f)

\* the CarbonEstimate the image handler sends
ImageEstimate(vision) ==
  LET ingredients == calculateCarbonFootprint(vision.ingredients)
  IN [status |-> 200,
      dish |-> vision.dish_name,
      estimated_carbon_kg |-> getTotalCarbonFootprint(ingredients),
      ingredients |-> ingredients,
      confidence |-> vision.confidence,
      methodology |-> "Computer vision analysis + carbon database lookup"]

\* ------------------------------------------------- POST /estimate/batch

MaxBatch == 10

\* none of the handler's three checks throws; dishes is a JS value, an array
\* being [type |-> "array", items |-> <<...>>]
BatchAccepts(ds) ==
  /\ ds.type = "array"
  /\ Len(ds.items) # 0
  /\ Len(ds.items) <= MaxBatch
  /\ \A i \in 1..Len(ds.items) :
       /\ ds.items[i].type = "string"
       /\ trim(ds.items[i].val) # <<>>

\* what the callback of dishes.map returns
BatchItem(dish, llm) ==
  LET ingredients == calculateCarbonFootprint(llm.ingredients)
  IN [dish |-> dish,
      estimated_carbon_kg |-> getTotalCarbonFootprint(ingredients),
      ingredients |-> ingredients,
      confidence |-> llm.confidence,
      methodology |-> "LLM ingredient inference + carbon database lookup"]

\* a callback whose promise rejects when the completion call gave nothing usable
settleDish_rejectOnFailure(dish, outcome) ==
  LET sanitizedDishOf == trim(dish.val)
      llm == analyzeDish(sanitizedDishOf, outcome)
  IN IF \/ ~(outcome.kind = "parsed" /\ validateLLMResponse(outcome.value))
        \/ CalculationThrows(llm.ingredients)
       THEN [status |-> "rejected", upstream |-> outcome]
       ELSE [status |-> "fulfilled", upstream |-> outcome,
             value |-> BatchItem(sanitizedDishOf, llm)]

\* How the promise of one dish settles once its completion call has produced
\* outcome: analyzeDish never rejects, calculateCarbonFootprint may throw.
settleDish(dish, outcome) ==
  LET sanitizedDishOf == trim(dish.val)
      llm == analyzeDish(sanitizedDishOf, outcome)
  IN IF CalculationThrows(llm.ingredients)
       THEN [status |-> "rejected", upstream |-> outcome]
       ELSE [status |-> "fulfilled", upstream |-> outcome,
             value |-> BatchItem(sanitizedDishOf, llm)]

\* results collected in the order in which the promises settle
allSettled_inCompletionOrder(results, index, result) ==
  LET slot == CHOOSE i \in 1..Len(results) :
                /\ results[i] = Null
                /\ \A h \in 1..(i - 1) : results[h] # Null
  IN [results EXCEPT ![slot] = result]

\* Promise.allSettled: the result of the promise at index goes to index
allSettled(results, index, result) == [results EXCEPT ![index] = result]

FailureRecord(dish) ==
  [dish |-> dish.val,
   error |-> "Failed to process dish",
   estimated_carbon_kg |-> Number(0),
   ingredients |-> <<>>,
   confidence |-> 0]

\* the callback of results.map
formatResult(result, dish) ==
  IF result.status = "fulfilled" THEN result.value ELSE FailureRecord(dish)

\* ---------------------------------------------- GET /carbon-data/stats

RECURSIVE distinctCategories(_, _)
\* [...new Set(values.map(data => data.category))]: first occurrences, in order
distinctCategories(tbl, seen) ==
  IF tbl = <<>> THEN seen
  ELSE IF \E i \in 1..Len(seen) : seen[i] = tbl[1].category
    THEN distinctCategories(Tail(tbl), seen)
    ELSE distinctCategories(Tail(tbl), Append(seen, tbl[1].category))

getCarbonDataStats(tbl) ==
  [totalIngredients |-> Len(tbl), categories |-> distinctCategories(tbl, <<>>)]

\* ------------------------------------------- handler runs side by side

\* a dish variable that all handler runs share: the dish of the latest call
sanitizedDishOf_moduleLevel(r) == inferenceCalls[Len(inferenceCalls)].dish

\* const sanitizedDish of the handler run r: a local of that run
sanitizedDishOf(r) == requests[r].sanitizedDish

\* the reply a POST /estimate request gets when it is the only one running
ReplyAlone(dish, outcome) ==
  IF ~HandlerAccepts([dish |-> dish]) THEN BadRequest
  ELSE LET llm == analyzeDish(trim(dish), outcome)
       IN IF CalculationThrows(llm.ingredients) THEN InternalError
          ELSE Estimate(trim(dish), llm)
\* ------------------------------------------- specification: normalizer

MaxNameLen == 3

NameAlphabet == {"a", "s", "S", "1", " "}

NullFraction == Fraction(0, 1)

NormIdle == name = <<>> /\ key = <<>> /\ rekey = <<>>
QtyIdle == quantity = <<>> /\ mass = NullFraction
IngrIdle ==
  /\ ingredient = Null /\ normalizedName = <<>> /\ carbonData = Null
  /\ estimatedWeight = NullFraction /\ resolved = Null
ReqIdle ==
  /\ body = Null /\ sanitizedDish = <<>> /\ upstream = Null
  /\ llmResponse = Null /\ response = Null

ApiIdle ==
  /\ file = Null /\ visionResponse = Null /\ dishes = Null
  /\ settled = <<>> /\ inferenceCalls = <<>>

ConcIdle == table = CARBON_DATA /\ requests = <<>> /\ stats = Null

InitNorm ==
  /\ pc = "raw"
  /\ name \in SeqsUpTo(NameAlphabet, MaxNameLen)
  /\ key = <<>>
  /\ rekey = <<>>
  /\ QtyIdle /\ IngrIdle /\ ReqIdle /\ ApiIdle /\ ConcIdle

\* calculateCarbonFootprint's first step on one ingredient name
Normalize ==
  /\ pc = "raw"
  /\ key' = normalizeIngredientName(name)
  /\ pc' = "normalized"
  /\ UNCHANGED <<name, rekey, qtyVars, ingrVars, reqVars, apiVars, concVars>>

\* the normalizer applied to a key it produced
Renormalize ==
  /\ pc = "normalized"
  /\ rekey' = normalizeIngredientName(key)
  /\ pc' = "renormalized"
  /\ UNCHANGED <<name, key, qtyVars, ingrVars, reqVars, apiVars, concVars>>

NextNorm == Normalize \/ Renormalize

SpecNorm == InitNorm /\ [][NextNorm]_vars

\* C3 (as stated): the Name Normalizer is idempotent: normalizing a
\* normalized key returns it unchanged.
C3_Idempotent == pc = "renormalized" => rekey = key

EndsInS(s) == s # <<>> /\ s[Len(s)] = "s"

\* C3 (amended): a normalized key that does not end in "s" is a fixed point
\* of the normalizer; one that ends in "s" loses that one "s" and is trimmed.
C3_IdempotentUnlessPluralS ==
  pc = "renormalized" =>
    /\ ~EndsInS(key) => rekey = key
    /\ EndsInS(key) => rekey = trim(SubSeq(key, 1, Len(key) - 1))

C3_Witness ==
  /\ pc = "renormalized"
  /\ name = <<"s","S","1">>
  /\ key = <<"s","s">>
  /\ rekey = <<"s">>

\* --------------------------------------- specification: quantity parser

MaxQtyWords == 2

QtyNumbers ==
  {<<>>, <<"0">>, <<"1">>, <<"2">>, <<"3">>, <<"2","0","0">>, <<"1",".","5">>, <<"0",".","5">>, <<".","5">>, <<"2",".">>}

QtyWords ==
  {<<" ">>, <<"k","g">>, <<"K","G">>, <<"g">>, <<"l","b">>, <<"p","o","u","n","d">>, <<"o","z">>, <<"o","u","n","c","e">>, <<"c","u","p">>,
   <<"t","b","s","p">>, <<"t","a","b","l","e","s","p","o","o","n">>, <<"t","s","p">>, <<"t","e","a","s","p","o","o","n">>, <<"s","m","a","l","l">>, <<"m","e","d","i","u","m">>,
   <<"l","a","r","g","e">>, <<"L","a","r","g","e">>, <<"p","i","e","c","e","s">>, <<"i","t","e","m">>, <<"a"," ","p","i","n","c","h">>}

QtyTrailers == {<<>>, <<"7">>}

QuantityTexts ==
  {n \o Concat(ws) \o t :
     n \in QtyNumbers, ws \in SeqsUpTo(QtyWords, MaxQtyWords), t \in QtyTrailers}

InitQty ==
  /\ pc = "raw"
  /\ quantity \in QuantityTexts
  /\ mass = NullFraction
  /\ NormIdle /\ IngrIdle /\ ReqIdle /\ ApiIdle /\ ConcIdle

ParseQuantity ==
  /\ pc = "raw"
  /\ mass' = parseQuantityToKg(quantity)
  /\ pc' = "parsed"
  /\ UNCHANGED <<quantity, normVars, ingrVars, reqVars, apiVars, concVars>>

NextQty == ParseQuantity

SpecQty == InitQty /\ [][NextQty]_vars

Zero == Fraction(0, 1)

\* C4 (as stated): every quantity text parses to a mass strictly above 0 kg.
C4_MassPositive == pc = "parsed" => FrLess(Zero, mass)

\* the text is read by one of the branches that multiply the first number
UnitScaled(q) ==
  \E u \in {<<"k","g">>, <<"g">>, <<"l","b">>, <<"p","o","u","n","d">>, <<"o","z">>, <<"o","u","n","c","e">>, <<"c","u","p">>, <<"t","b","s","p">>,
            <<"t","a","b","l","e","s","p","o","o","n">>, <<"t","s","p">>, <<"t","e","a","s","p","o","o","n">>} : includes(q, u)

\* C4 (amended): the parsed mass is never negative; it is strictly above 0
\* unless the text has a multiplying unit keyword and its first number is 0,
\* and then it is 0.
C4_MassPositiveUnlessZeroAmount ==
  pc = "parsed" =>
    LET q == toLowerCase(quantity)
        zeroAmount == numberMatch(q) # <<>> /\ parseFloat(numberMatch(q)).num = 0
    IN /\ ~FrLess(mass, Zero)
       /\ (UnitScaled(q) /\ zeroAmount) => FrEq(mass, Zero)
       /\ ~(UnitScaled(q) /\ zeroAmount) => FrLess(Zero, mass)

C4_Witness ==
  /\ pc = "parsed"
  /\ quantity = <<"0"," ","k","g">>
  /\ FrEq(mass, Zero)

\* C5: a text with a size word or piece/item and no unit keyword listed
\* before it gets the fixed mass of that word, whatever number it holds:
\* small 0.05, medium 0.1, large 0.2, piece/item 0.1; "large" and "3 large"
\* both give 0.2 kg.
C5_SizeWordsFixedMass ==
  pc = "parsed" =>
    LET q == toLowerCase(quantity)
    IN /\ (~UnitScaled(q) /\ includes(q, <<"s","m","a","l","l">>)) => FrEq(mass, Fraction(5, 100))
       /\ (~UnitScaled(q) /\ ~includes(q, <<"s","m","a","l","l">>) /\ includes(q, <<"m","e","d","i","u","m">>))
            => FrEq(mass, Fraction(1, 10))
       /\ (~UnitScaled(q) /\ ~includes(q, <<"s","m","a","l","l">>) /\ ~includes(q, <<"m","e","d","i","u","m">>)
             /\ (includes(q, <<"p","i","e","c","e">>) \/ includes(q, <<"i","t","e","m">>)))
            => FrEq(mass, Fraction(1, 10))
       /\ quantity \in {<<"l","a","r","g","e">>, <<"3"," ","l","a","r","g","e">>} => FrEq(mass, Fraction(2, 10))

\* C6: "200g" -> 0.2 kg, "1 kg" -> 1.0 kg, "2 lb" -> 0.907 kg within 0.001,
\* "medium" -> 0.1 kg, "" -> a mass in [0.05, 0.5] kg.
C6_ParserExamples ==
  pc = "parsed" =>
    /\ quantity = <<"2","0","0","g">> => FrEq(mass, Fraction(2, 10))
    /\ quantity = <<"1"," ","k","g">> => FrEq(mass, Fraction(1, 1))
    /\ quantity = <<"2"," ","l","b">> =>
         /\ ~FrLess(mass, Fraction(906, 1000))
         /\ ~FrLess(Fraction(908, 1000), mass)
    /\ quantity = <<"m","e","d","i","u","m">> => FrEq(mass, Fraction(1, 10))
    /\ quantity = <<>> =>
         /\ ~FrLess(mass, Fraction(5, 100))
         /\ ~FrLess(Fraction(5, 10), mass)

C6_Witness ==
  /\ pc = "parsed"
  /\ quantity = <<"2"," ","l","b">>
  /\ mass = Fraction(907184, 1000000)

\* ------------------------------- specification: one ingredient resolved

\* raw names: every key of the table as declared, and names that take each
\* of the other ways through findCarbonData
IngredientNames ==
  {CARBON_DATA[i].key : i \in 1..Len(CARBON_DATA)} \cup
  {<<"x","y","z","f","o","o","1","2","3">>, <<"c","o","n","s","t","r","u","c","t","o","r">>, <<"C","o","n","s","t","r","u","c","t","o","r","s","!">>, <<"C","h","i","c","k","e","n">>, <<"R","i","c","e">>,
   <<"b","l","a","c","k"," ","p","e","p","p","e","r">>, <<"b","e","e","f"," ","a","n","d"," ","c","h","i","c","k","e","n">>, <<"1","2","3">>, <<>>, <<"d","u","c","k">>, <<"b","a","c","o","n">>,
   <<"m","i","x","e","d"," ","i","n","g","r","e","d","i","e","n","t","s">>, <<"c","o","o","k","i","n","g"," ","o","i","l">>, <<"s","e","a","s","o","n","i","n","g","s">>, <<"w","h","e","a","t"," ","f","l","o","u","r">>,
   <<"m","o","z","z","a","r","e","l","l","a"," ","c","h","e","e","s","e">>, <<"t","o","m","a","t","o"," ","s","a","u","c","e">>, <<"C","h","i","c","k","e","n"," ","B","r","e","a","s","t">>, <<"s","a","l","t">>,
   <<"t","o","f","u">>, <<"w","a","l","n","u","t","s">>, <<"l","a","r","d">>, <<"s","e","a"," ","s","a","l","t">>, <<"c","r","a","b">>, <<"c","r","e","a","m">>, <<"m","a","n","g","o">>,
   <<"b","a","r","l","e","y">>, <<"s","o","y"," ","s","a","u","c","e">>, <<"h","a","m"," ","a","n","d"," ","c","r","e","a","m">>, <<"h","e","r","b"," ","s","a","l","t">>}

IngredientQuantities ==
  {<<"1","5","0","g">>, <<"2","0","0","g">>, <<"9","g">>, <<"1"," ","t","b","s","p">>, <<>>, <<"l","a","r","g","e">>, <<"2"," ","l","b">>, <<"1"," ","c","u","p">>,
   <<"0","g">>, <<"3"," ","o","z">>, <<"1",".","5"," ","k","g">>, <<"m","e","d","i","u","m">>, <<"2"," ","p","i","e","c","e","s">>}

CategoryHints == {"meat", "grains", "unknown", ""}

InitIngr ==
  /\ pc = "raw"
  /\ ingredient \in {Raw(n, q, c) : n \in IngredientNames,
                       q \in IngredientQuantities, c \in CategoryHints}
  /\ normalizedName = <<>>
  /\ carbonData = Null
  /\ estimatedWeight = NullFraction
  /\ resolved = Null
  /\ NormIdle /\ QtyIdle /\ ReqIdle /\ ApiIdle /\ ConcIdle

\* one run of the callback of calculateCarbonFootprint's map
Calculate ==
  /\ pc = "raw"
  /\ normalizedName' = normalizeIngredientName(ingredient.name.val)
  /\ carbonData' = resolveIngredient(ingredient)
  /\ estimatedWeight' = parseQuantityToKg(ingredient.estimated_quantity.val)
  /\ resolved' = calculateOne(ingredient)
  /\ pc' = "calculated"
  /\ UNCHANGED <<ingredient, normVars, qtyVars, reqVars, apiVars, concVars>>

NextIngr == Calculate

SpecIngr == InitIngr /\ [][NextIngr]_vars

\* C1: the Resolution Chain gives every raw name, under every category
\* hint, an emissions factor with carbon_per_kg > 0 and a non-empty category.
C1_AlwaysResolved ==
  pc = "calculated" =>
    /\ carbonPerKgOf(carbonData).type = "number"
    /\ carbonPerKgOf(carbonData).val > 0
    /\ categoryOf(carbonData).type = "string"
    /\ categoryOf(carbonData).val # ""

\* the name reaches neither a table entry nor a category keyword
Unmatched(k) ==
  /\ ~ExactMatch(k)
  /\ ~PartialMatch(k)
  /\ inferCategory(k) = Null

\* C2 (as stated): a name that matches no table entry and no category
\* keyword, with the category hint "meat", gets the fallback constant of
\* "meat" with category "meat", not the absolute fallback.
C2_HintBeforeAbsoluteFallback ==
  (pc = "calculated" /\ Unmatched(normalizedName) /\ ingredient.category.val = "meat")
    => carbonData = [carbon_per_kg |-> 150, category |-> "meat"]

\* C2 (amended): the category hint is not consulted: the factor is the one
\* the name alone resolves to, and "xyzfoo123" with the hint "meat" gets the
\* absolute fallback, 2.5 with category "unknown".
C2_HintIgnored ==
  pc = "calculated" =>
    /\ carbonData = findCarbonData(normalizeIngredientName(ingredient.name.val))
    /\ (ingredient.name.val = <<"x","y","z","f","o","o","1","2","3">> /\ ingredient.category.val = "meat")
         => carbonData = [carbon_per_kg |-> 25, category |-> "unknown"]

C2_Witness ==
  /\ pc = "calculated"
  /\ ingredient.name.val = <<"x","y","z","f","o","o","1","2","3">>
  /\ ingredient.category.val = "meat"
  /\ Unmatched(normalizedName)
  /\ carbonData = UltimateFallback

\* C7: carbon_kg is the product of the factor and the mass rounded half-up
\* to two decimals and is >= 0; 6.9 x 0.15 gives 1.04 and 2.7 x 0.2 gives 0.54.
C7_RoundedProduct ==
  pc = "calculated" =>
    /\ resolved.carbon_kg.type = "number"
    /\ resolved.carbon_kg.val >= 0
    /\ carbonPerKgOf(carbonData).type = "number"
    /\ resolved.carbon_kg.val =
         RoundHalfUp(carbonPerKgOf(carbonData).val * 10,
                     estimatedWeight.num, estimatedWeight.den)
    /\ (carbonData.carbon_per_kg = 69 /\ FrEq(estimatedWeight, Fraction(15, 100)))
         => resolved.carbon_kg.val = 104
    /\ (carbonData.carbon_per_kg = 27 /\ FrEq(estimatedWeight, Fraction(2, 10)))
         => resolved.carbon_kg.val = 54

\* ------------------------------------------ specification: POST /estimate

MaxIngredients == 2

Bodies ==
  {[dish |-> d] :
     d \in {<<"P","i","z","z","a"," ","M","a","r","g","h","e","r","i","t","a">>, <<"p","i","z","z","a"," ","b","u","r","g","e","r">>, <<"V","e","g","g","i","e"," ","B","u","r","g","e","r"," ","w","i","t","h"," ","p","a","s","t","a">>,
            <<"P","A","S","T","A">>, <<"U","n","i","c","o","r","n"," ","t","e","a","r","s"," ","w","i","t","h"," ","d","r","a","g","o","n"," ","s","c","a","l","e","s">>, <<" "," ","P","i","z","z","a"," "," ">>,
            <<>>, <<" "," "," ">>, [i \in 1..(DishMax + 1) |-> "x"]}}

PayloadIngredients ==
  {Raw(<<"c","h","i","c","k","e","n">>, <<"1","5","0","g">>, "meat"), Raw(<<"r","i","c","e">>, <<"2","0","0","g">>, "grains"),
   Raw(<<"c","o","n","s","t","r","u","c","t","o","r">>, <<"1","0","0","g">>, "unknown"), Raw(<<"x","y","z","f","o","o","1","2","3">>, <<"1"," ","c","u","p">>, "meat"),
   Raw(<<>>, <<"1"," ","c","u","p">>, "dairy"),
   [name |-> Number(123), estimated_quantity |-> String(<<"1","0","0","g">>),
    category |-> String("meat")],
   [name |-> String(<<"b","e","e","f">>), estimated_quantity |-> Number(200),
    category |-> String("meat")]}

Payloads ==
  {Null, Number(5),
   [type |-> "object", ingredients |-> Undefined, confidence |-> Number(85)]}
  \cup
  {[type |-> "object", ingredients |-> [type |-> "array", items |-> its],
    confidence |-> c] :
     its \in SeqsUpTo(PayloadIngredients, MaxIngredients),
     c \in {Number(85), Number(150), Number(0 - 10), String("high"), Undefined}}

UpstreamOutcomes == {Throws, NoContent, Unparsable} \cup {Parsed(p) : p \in Payloads}

Init ==
  /\ pc = "received"
  /\ body \in Bodies
  /\ sanitizedDish = <<>>
  /\ upstream = Null
  /\ llmResponse = Null
  /\ response = Null
  /\ NormIdle /\ QtyIdle /\ IngrIdle /\ ApiIdle /\ ConcIdle

\* validateRequest or the handler's own check rejects the body
RejectRequest ==
  /\ pc = "received"
  /\ ~HandlerAccepts(body)
  /\ response' = BadRequest
  /\ pc' = "done"
  /\ UNCHANGED <<body, sanitizedDish, upstream, llmResponse, normVars, qtyVars, ingrVars, apiVars, concVars>>

\* the handler trims the dish and awaits llmService.analyzeDish
CallAnalyzeDish ==
  /\ pc = "received"
  /\ HandlerAccepts(body)
  /\ sanitizedDish' = trim(body.dish)
  /\ inferenceCalls' = Append(inferenceCalls, TextCall(trim(body.dish)))
  /\ pc' = "awaiting"
  /\ UNCHANGED <<body, upstream, llmResponse, response, normVars, qtyVars, ingrVars,
                 file, visionResponse, dishes, settled, concVars>>

\* the completion call settles and analyzeDish runs to its return
LLMReturns ==
  /\ pc = "awaiting"
  /\ \E outcome \in UpstreamOutcomes :
       /\ upstream' = outcome
       /\ llmResponse' = analyzeDish(sanitizedDish, outcome)
  /\ pc' = "analyzed"
  /\ UNCHANGED <<body, sanitizedDish, response, normVars, qtyVars, ingrVars, apiVars, concVars>>

\* the handler resumes: calculateCarbonFootprint, getTotalCarbonFootprint, res.json
Respond ==
  /\ pc = "analyzed"
  /\ response' = IF CalculationThrows(llmResponse.ingredients)
                   THEN InternalError
                   ELSE Estimate(sanitizedDish, llmResponse)
  /\ pc' = "done"
  /\ UNCHANGED <<body, sanitizedDish, upstream, llmResponse, normVars, qtyVars, ingrVars, apiVars, concVars>>

Next == RejectRequest \/ CallAnalyzeDish \/ LLMReturns \/ Respond

Spec == Init /\ [][Next]_vars

Sent == pc = "done" /\ response.status = 200

RECURSIVE SumVals(_)
SumVals(ingredients) ==
  IF ingredients = <<>> THEN 0
  ELSE ingredients[1].carbon_kg.val + SumVals(Tail(ingredients))

\* C8: in every estimate sent, estimated_carbon_kg is the sum of the rounded
\* carbon_kg of its ingredients, rounded to two decimals; it is >= 0, it is 0
\* for no ingredients, and it is 1.58 for the ingredient values 1.04 and 0.54.
C8_TotalIsRoundedSum ==
  Sent =>
    /\ response.estimated_carbon_kg.type = "number"
    /\ response.estimated_carbon_kg.val >= 0
    /\ \A i \in 1..Len(response.ingredients) :
         response.ingredients[i].carbon_kg.type = "number"
    /\ response.estimated_carbon_kg.val = SumVals(response.ingredients)
    /\ response.ingredients = <<>> => response.estimated_carbon_kg.val = 0
    /\ (/\ Len(response.ingredients) = 2
        /\ response.ingredients[1].carbon_kg = Number(104)
        /\ response.ingredients[2].carbon_kg = Number(54))
         => response.estimated_carbon_kg.val = 158

\* analyzeDish has returned
Analyzed == upstream # Null

\* the call threw, or what it returned does not pass the try block
InferenceFailed ==
  \/ upstream.kind \in {"throws", "no content", "unparsable"}
  \/ /\ upstream.kind = "parsed"
     /\ \/ upstream.value.type # "object"
        \/ upstream.value.ingredients.type # "array"
        \/ upstream.value.confidence.type # "number"
        \/ upstream.value.confidence.val < 0
        \/ upstream.value.confidence.val > 100
        \/ \E i \in 1..Len(upstream.value.ingredients.items) :
             LET it == upstream.value.ingredients.items[i]
             IN \/ ~Truthy(it.name, <<>>)
                \/ ~Truthy(it.estimated_quantity, <<>>)
                \/ ~Truthy(it.category, "")

Canned(i) == fallbackResponses[i].response

\* C9: when inference fails on the text path, the fallback is the canned
\* response of the first of pizza, burger, pasta that the lower-cased dish
\* name contains; "Pizza Margherita" gets the pizza list with confidence 0.75.
C9_FirstPatternWins ==
  (Analyzed /\ InferenceFailed) =>
    LET d == toLowerCase(sanitizedDish)
    IN /\ includes(d, <<"p","i","z","z","a">>) => llmResponse = Canned(1)
       /\ (~includes(d, <<"p","i","z","z","a">>) /\ includes(d, <<"b","u","r","g","e","r">>)) => llmResponse = Canned(2)
       /\ (~includes(d, <<"p","i","z","z","a">>) /\ ~includes(d, <<"b","u","r","g","e","r">>) /\ includes(d, <<"p","a","s","t","a">>))
            => llmResponse = Canned(3)
       /\ sanitizedDish = <<"P","i","z","z","a"," ","M","a","r","g","h","e","r","i","t","a">> =>
            /\ llmResponse.confidence = 75
            /\ llmResponse.ingredients[1].name = String(<<"w","h","e","a","t"," ","f","l","o","u","r">>)
            /\ Len(llmResponse.ingredients) = 5

C9_Witness ==
  /\ pc = "analyzed"
  /\ upstream = Throws
  /\ sanitizedDish = <<"p","i","z","z","a"," ","b","u","r","g","e","r">>
  /\ llmResponse = Canned(1)

\* C10: when inference fails and the lower-cased dish name contains none of
\* the patterns, the fallback is the generic response: exactly three
\* ingredients and confidence 0.5.
C10_GenericFallback ==
  (/\ Analyzed
   /\ InferenceFailed
   /\ \A p \in {<<"p","i","z","z","a">>, <<"b","u","r","g","e","r">>, <<"p","a","s","t","a">>} : ~includes(toLowerCase(sanitizedDish), p))
    => /\ Len(llmResponse.ingredients) = 3
       /\ llmResponse.confidence = 50

C10_Witness ==
  /\ pc = "analyzed"
  /\ upstream = Unparsable
  /\ sanitizedDish = <<"U","n","i","c","o","r","n"," ","t","e","a","r","s"," ","w","i","t","h"," ","d","r","a","g","o","n"," ","s","c","a","l","e","s">>
  /\ Len(llmResponse.ingredients) = 3
  /\ llmResponse.confidence = 50

\* ------------------------------------ specification: POST /estimate/image

\* req.file before multer's checks: none, or its size in bytes and MIME type
Uploads ==
  {Null} \cup
  {[size |-> s, mimetype |-> m] :
     s \in {2048, maxSize, maxSize + 1},
     m \in {"image/jpeg", "image/webp", "image/gif", "application/pdf"}}

VisionPayloads ==
  {Null, Number(5),
   [type |-> "object", dish_name |-> String(<<"M","a","r","g","h","e","r","i","t","a"," ","P","i","z","z","a">>),
    ingredients |-> Undefined, confidence |-> Number(85)]}
  \cup
  {[type |-> "object", dish_name |-> d,
    ingredients |-> [type |-> "array", items |-> its], confidence |-> c] :
     d \in {String(<<"M","a","r","g","h","e","r","i","t","a"," ","P","i","z","z","a">>), String(<<>>), Undefined, Number(7)},
     its \in SeqsUpTo(PayloadIngredients, MaxIngredients),
     c \in {Number(85), Number(150), String("high")}}

VisionOutcomes == {Throws, NoContent, Unparsable} \cup {Parsed(p) : p \in VisionPayloads}

InitImage ==
  /\ pc = "image received"
  /\ file \in Uploads
  /\ upstream = Null
  /\ visionResponse = Null
  /\ response = Null
  /\ body = Null /\ sanitizedDish = <<>> /\ llmResponse = Null
  /\ dishes = Null /\ settled = <<>> /\ inferenceCalls = <<>>
  /\ NormIdle /\ QtyIdle /\ IngrIdle /\ ConcIdle

\* multer or one of the handler's two checks rejects the upload
RejectImage ==
  /\ pc = "image received"
  /\ ~ImageAccepts(file)
  /\ response' = ImageRejection(file)
  /\ pc' = "done"
  /\ UNCHANGED <<file, upstream, visionResponse, body, sanitizedDish, llmResponse,
                 dishes, settled, inferenceCalls, normVars, qtyVars, ingrVars, concVars>>

\* the handler awaits visionService.analyzeImage
CallAnalyzeImage ==
  /\ pc = "image received"
  /\ ImageAccepts(file)
  /\ inferenceCalls' = Append(inferenceCalls, VisionCall(file.mimetype))
  /\ pc' = "image awaiting"
  /\ UNCHANGED <<file, upstream, visionResponse, response, body, sanitizedDish,
                 llmResponse, dishes, settled, normVars, qtyVars, ingrVars, concVars>>

\* the completion call settles and analyzeImage runs to its return
VisionReturns ==
  /\ pc = "image awaiting"
  /\ \E outcome \in VisionOutcomes :
       /\ upstream' = outcome
       /\ visionResponse' = analyzeImage(outcome)
  /\ pc' = "image analyzed"
  /\ UNCHANGED <<file, response, body, sanitizedDish, llmResponse,
                 dishes, settled, inferenceCalls, normVars, qtyVars, ingrVars, concVars>>

\* the handler resumes: calculateCarbonFootprint, getTotalCarbonFootprint, res.json
RespondImage ==
  /\ pc = "image analyzed"
  /\ response' = IF CalculationThrows(visionResponse.ingredients)
                   THEN InternalError
                   ELSE ImageEstimate(visionResponse)
  /\ pc' = "done"
  /\ UNCHANGED <<file, upstream, visionResponse, body, sanitizedDish, llmResponse,
                 dishes, settled, inferenceCalls, normVars, qtyVars, ingrVars, concVars>>

NextImage == RejectImage \/ CallAnalyzeImage \/ VisionReturns \/ RespondImage

SpecImage == InitImage /\ [][NextImage]_vars

\* ------------------------------------ specification: POST /estimate/batch

MaxBatchLen == 2

BatchDishes == {String(<<"P","i","z","z","a">>), String(<<" "," ","V","e","g","g","i","e"," ","B","u","r","g","e","r"," ">>),
                String([i \in 1..(DishMax + 1) |-> "x"])}

\* req.body.dishes
BatchBodies ==
  {Undefined, String(<<"P","i","z","z","a">>)} \cup
  {[type |-> "array", items |-> ds] : ds \in SeqsUpTo(BatchDishes, MaxBatchLen)} \cup
  {[type |-> "array", items |-> ds] :
     ds \in {<<String(<<"P","i","z","z","a">>), Number(5)>>,
             <<String(<<" "," "," ">>), String(<<"P","i","z","z","a">>)>>,
             <<String(<<"P","i","z","z","a">>), String(<<>>)>>,
             <<Null>>,
             [i \in 1..(MaxBatch + 1) |-> String(<<"P","i","z","z","a">>)]}}

\* what the completion call of one dish can produce
BatchOutcomes ==
  {Throws, Unparsable, Parsed(Number(5)),
   Parsed([type |-> "object",
           ingredients |-> [type |-> "array",
                            items |-> <<Raw(<<"c","h","i","c","k","e","n">>, <<"1","5","0","g">>, "meat"),
                                        Raw(<<"r","i","c","e">>, <<"2","0","0","g">>, "grains")>>],
           confidence |-> Number(85)]),
   Parsed([type |-> "object",
           ingredients |-> [type |-> "array",
                            items |-> <<[name |-> Number(123),
                                         estimated_quantity |-> String(<<"1","0","0","g">>),
                                         category |-> String("meat")]>>],
           confidence |-> Number(85)])}

InitBatch ==
  /\ pc = "batch received"
  /\ dishes \in BatchBodies
  /\ settled = <<>>
  /\ inferenceCalls = <<>>
  /\ response = Null
  /\ body = Null /\ sanitizedDish = <<>> /\ upstream = Null /\ llmResponse = Null
  /\ file = Null /\ visionResponse = Null
  /\ NormIdle /\ QtyIdle /\ IngrIdle /\ ConcIdle

\* one of the handler's three checks throws its AppError
RejectBatch ==
  /\ pc = "batch received"
  /\ ~BatchAccepts(dishes)
  /\ response' = BadRequest
  /\ pc' = "done"
  /\ UNCHANGED <<dishes, settled, inferenceCalls, body, sanitizedDish, upstream,
                 llmResponse, file, visionResponse, normVars, qtyVars, ingrVars, concVars>>

\* dishes.map runs every callback up to its await: one completion call per
\* dish is issued, in input order, and Promise.allSettled waits for all
StartBatch ==
  /\ pc = "batch received"
  /\ BatchAccepts(dishes)
  /\ inferenceCalls' =
       inferenceCalls \o [i \in 1..Len(dishes.items) |-> TextCall(trim(dishes.items[i].val))]
  /\ settled' = [i \in 1..Len(dishes.items) |-> Null]
  /\ pc' = "batch awaiting"
  /\ UNCHANGED <<dishes, response, body, sanitizedDish, upstream, llmResponse,
                 file, visionResponse, normVars, qtyVars, ingrVars, concVars>>

\* the completion call of one pending dish settles, in any order, and the
\* callback of that dish runs to its end
DishSettles ==
  /\ pc = "batch awaiting"
  /\ \E index \in 1..Len(dishes.items) : \E outcome \in BatchOutcomes :
       /\ settled[index] = Null
       /\ settled' = allSettled(settled, index, settleDish(dishes.items[index], outcome))
  /\ UNCHANGED <<pc, dishes, inferenceCalls, response, body, sanitizedDish, upstream,
                 llmResponse, file, visionResponse, normVars, qtyVars, ingrVars, concVars>>

\* every promise has settled: results.map and res.json({ estimates })
RespondBatch ==
  /\ pc = "batch awaiting"
  /\ \A i \in 1..Len(settled) : settled[i] # Null
  /\ response' = [status |-> 200,
                  estimates |-> [i \in 1..Len(settled) |->
                                   formatResult(settled[i], dishes.items[i])]]
  /\ pc' = "done"
  /\ UNCHANGED <<dishes, settled, inferenceCalls, body, sanitizedDish, upstream,
                 llmResponse, file, visionResponse, normVars, qtyVars, ingrVars, concVars>>

NextBatch == RejectBatch \/ StartBatch \/ DishSettles \/ RespondBatch

SpecBatch == InitBatch /\ [][NextBatch]_vars

\* ------------------------------------------ specification: the three routes

InitApi == Init \/ InitImage \/ InitBatch

NextApi == Next \/ NextImage \/ NextBatch

SpecApi == InitApi /\ [][NextApi]_vars

\* ----------------------- specification: requests processed side by side

MaxRequests == 2

ConcDishes == {<<"P","i","z","z","a">>, <<" "," ","V","e","g","g","i","e"," ","B","u","r","g","e","r"," ">>, <<" "," "," ">>}

ConcOutcomes ==
  {Throws,
   Parsed([type |-> "object",
           ingredients |-> [type |-> "array",
                            items |-> <<Raw(<<"c","h","i","c","k","e","n">>, <<"1","5","0","g">>, "meat"),
                                        Raw(<<"r","i","c","e">>, <<"2","0","0","g">>, "grains")>>],
           confidence |-> Number(85)]),
   Parsed([type |-> "object",
           ingredients |-> [type |-> "array",
                            items |-> <<[name |-> Number(123),
                                         estimated_quantity |-> String(<<"1","0","0","g">>),
                                         category |-> String("meat")]>>],
           confidence |-> Number(85)])}

\* the locals of one run of the POST /estimate handler
Received(d) ==
  [pc |-> "received", dish |-> d, sanitizedDish |-> <<>>, upstream |-> Null,
   llmResponse |-> Null, response |-> Null]

InitConc ==
  /\ pc = "serving"
  /\ table = CARBON_DATA
  /\ requests \in [1..MaxRequests -> {Received(d) : d \in ConcDishes}]
  /\ stats = Null
  /\ inferenceCalls = <<>>
  /\ file = Null /\ visionResponse = Null /\ dishes = Null /\ settled = <<>>
  /\ NormIdle /\ QtyIdle /\ IngrIdle /\ ReqIdle

\* validateRequest or the handler's own check rejects the body of one request
ConcReject ==
  \E r \in 1..MaxRequests :
    /\ requests[r].pc = "received"
    /\ ~HandlerAccepts([dish |-> requests[r].dish])
    /\ requests' = [requests EXCEPT ![r].response = BadRequest, ![r].pc = "done"]
    /\ UNCHANGED <<pc, table, stats, inferenceCalls, file, visionResponse, dishes,
                   settled, normVars, qtyVars, ingrVars, reqVars>>

\* the handler of one request trims the dish and awaits llmService.analyzeDish
ConcCall ==
  \E r \in 1..MaxRequests :
    /\ requests[r].pc = "received"
    /\ HandlerAccepts([dish |-> requests[r].dish])
    /\ requests' = [requests EXCEPT ![r].sanitizedDish = trim(requests[r].dish),
                                    ![r].pc = "awaiting"]
    /\ inferenceCalls' = Append(inferenceCalls, TextCall(trim(requests[r].dish)))
    /\ UNCHANGED <<pc, table, stats, file, visionResponse, dishes, settled,
                   normVars, qtyVars, ingrVars, reqVars>>

\* the completion call of one request settles and analyzeDish returns
ConcReturns ==
  \E r \in 1..MaxRequests : \E outcome \in ConcOutcomes :
    /\ requests[r].pc = "awaiting"
    /\ requests' = [requests EXCEPT
                      ![r].upstream = outcome,
                      ![r].llmResponse = analyzeDish(sanitizedDishOf(r), outcome),
                      ![r].pc = "analyzed"]
    /\ UNCHANGED <<pc, table, stats, inferenceCalls, file, visionResponse, dishes,
                   settled, normVars, qtyVars, ingrVars, reqVars>>

\* the handler of one request resumes: calculateCarbonFootprint reads the
\* table, getTotalCarbonFootprint, res.json
ConcRespond ==
  \E r \in 1..MaxRequests :
    /\ requests[r].pc = "analyzed"
    /\ requests' = [requests EXCEPT
                      ![r].response =
                        IF CalculationThrows(requests[r].llmResponse.ingredients)
                          THEN InternalError
                          ELSE Estimate(sanitizedDishOf(r), requests[r].llmResponse),
                      ![r].pc = "done"]
    /\ UNCHANGED <<pc, table, stats, inferenceCalls, file, visionResponse, dishes,
                   settled, normVars, qtyVars, ingrVars, reqVars>>

\* GET /carbon-data/stats, at any moment: it reads the table
QueryStats ==
  /\ pc = "serving"
  /\ stats = Null
  /\ stats' = getCarbonDataStats(table)
  /\ UNCHANGED <<pc, table, requests, inferenceCalls, file, visionResponse, dishes,
                 settled, normVars, qtyVars, ingrVars, reqVars>>

NextConc == ConcReject \/ ConcCall \/ ConcReturns \/ ConcRespond \/ QueryStats

SpecConc == InitConc /\ [][NextConc]_vars

\* --------------------------------------------------- image path fallback

\* analyzeImage has returned
VisionAnalyzed == visionResponse # Null

\* the call threw, or what it returned does not pass the try block
VisionFailed ==
  \/ upstream.kind \in {"throws", "no content", "unparsable"}
  \/ /\ upstream.kind = "parsed"
     /\ \/ upstream.value.type # "object"
        \/ upstream.value.dish_name.type # "string"
        \/ upstream.value.dish_name.val = <<>>
        \/ upstream.value.ingredients.type # "array"
        \/ upstream.value.confidence.type # "number"
        \/ upstream.value.confidence.val < 0
        \/ upstream.value.confidence.val > 100
        \/ \E i \in 1..Len(upstream.value.ingredients.items) :
             LET it == upstream.value.ingredients.items[i]
             IN \/ ~Truthy(it.name, <<>>)
                \/ ~Truthy(it.estimated_quantity, <<>>)
                \/ ~Truthy(it.category, "")

\* C11: on the image path, when the inference call throws, has no content,
\* has unparsable content or a payload that fails validation (a missing or
\* empty dish_name included), analyzeImage returns the one fixed response with
\* dish_name "Unknown Dish" and confidence 0.3; it returns in every case.
C11_ImageFallback ==
  /\ pc = "image analyzed" => VisionAnalyzed
  /\ (VisionAnalyzed /\ VisionFailed) =>
       /\ visionResponse.dish_name = String(<<"U","n","k","n","o","w","n"," ","D","i","s","h">>)
       /\ visionResponse.confidence = 30
       /\ visionResponse = getFallbackVisionResponse
       /\ Len(visionResponse.ingredients) = 3

C11_Witness ==
  /\ pc = "image analyzed"
  /\ upstream.kind = "parsed"
  /\ upstream.value.type = "object"
  /\ upstream.value.dish_name = String(<<>>)
  /\ upstream.value.confidence = Number(85)
  /\ Len(upstream.value.ingredients.items) = 1
  /\ upstream.value.ingredients.items[1] = Raw(<<"c","h","i","c","k","e","n">>, <<"1","5","0","g">>, "meat")
  /\ visionResponse.dish_name = String(<<"U","n","k","n","o","w","n"," ","D","i","s","h">>)
  /\ visionResponse.confidence = 30

\* --------------------------------------------------- validate or fallback

NonEmptyString(v, empty) == v.type = "string" /\ v.val # empty

\* the validity invariant of a response handed to calculateCarbonFootprint
ValidResponse(r) ==
  /\ r.confidence >= 0
  /\ r.confidence <= 100
  /\ \A i \in 1..Len(r.ingredients) :
       /\ NonEmptyString(r.ingredients[i].name, <<>>)
       /\ NonEmptyString(r.ingredients[i].estimated_quantity, <<>>)
       /\ NonEmptyString(r.ingredients[i].category, "")

\* C12: every response that analyzeDish or analyzeImage returns has a
\* confidence in [0,1] and, in every ingredient, a name, an estimated_quantity
\* and a category that are non-empty strings, whether it is an accepted
\* payload or a canned fallback.
C12_ValidityInvariant ==
  /\ llmResponse # Null => ValidResponse(llmResponse)
  /\ visionResponse # Null => ValidResponse(visionResponse)

\* ------------------------------------------------- no error on valid input

\* a dish of at most 200 characters that is not blank, or an image of an
\* allowed type and size
ValidInput ==
  \/ /\ body # Null
     /\ Len(trim(body.dish)) >= 1
     /\ Len(body.dish) <= DishMax
  \/ /\ file # Null
     /\ file.size <= maxSize
     /\ file.mimetype \in allowedTypes

\* C13: a request with a valid dish name or a valid image ends, whatever the
\* inference call produced, with a well-formed estimate and never an error.
C13_ValidRequestGetsEstimate ==
  (pc = "done" /\ ValidInput) =>
    /\ response.status = 200
    /\ response.estimated_carbon_kg.type = "number"
    /\ response.estimated_carbon_kg.val >= 0
    /\ \A i \in 1..Len(response.ingredients) :
         /\ response.ingredients[i].carbon_kg.type = "number"
         /\ response.ingredients[i].category.type = "string"

\* ------------------------------------------------------------------ batch

\* the batch was accepted and every dish has its result
BatchDone == pc = "done" /\ settled # <<>>

\* the completion call of dish k threw or gave nothing that passes validation
CallFailed(k) ==
  \/ settled[k].upstream.kind \in {"throws", "no content", "unparsable"}
  \/ /\ settled[k].upstream.kind = "parsed"
     /\ ~validateLLMResponse(settled[k].upstream.value)

IsFailureRecord(item) ==
  /\ "error" \in DOMAIN item
  /\ item.estimated_carbon_kg = Number(0)
  /\ item.ingredients = <<>>

\* C14 as stated: in a batch of N dishes, item k has estimated_carbon_kg 0,
\* no ingredients and an error marker when the inference call for dish k
\* fails, the output has length N and the other items are unaffected.
C14_FailedCallGivesErrorRecord ==
  BatchDone =>
    /\ Len(response.estimates) = Len(dishes.items)
    /\ \A k \in 1..Len(dishes.items) :
         CallFailed(k) => IsFailureRecord(response.estimates[k])

\* C14 amended: when the inference call for dish k fails, item k is the
\* estimate computed from the canned fallback for dish k, with ingredients,
\* a carbon total above 0 and no error marker; the error record is the item
\* of a dish whose calculation threw; the output has length N and every item
\* depends on its own dish and its own call only.
C14_FailedCallGivesFallbackEstimate ==
  BatchDone =>
    /\ Len(response.estimates) = Len(dishes.items)
    /\ \A k \in 1..Len(dishes.items) :
         LET item == response.estimates[k]
             dish == trim(dishes.items[k].val)
         IN /\ CallFailed(k) =>
                 /\ item = BatchItem(dish, getFallbackResponse(dish))
                 /\ "error" \notin DOMAIN item
                 /\ item.ingredients # <<>>
                 /\ item.estimated_carbon_kg.val > 0
            /\ IsFailureRecord(item) <=>
                 (/\ settled[k].upstream.kind = "parsed"
                  /\ validateLLMResponse(settled[k].upstream.value)
                  /\ CalculationThrows(settled[k].upstream.value.ingredients.items))
            /\ item = formatResult(settleDish(dishes.items[k], settled[k].upstream),
                                   dishes.items[k])

C14_Witness ==
  /\ BatchDone
  /\ Len(dishes.items) = 2
  /\ settled[1].upstream = Throws
  /\ settled[2].upstream.kind = "parsed"
  /\ settled[2].status = "fulfilled"
  /\ "error" \notin DOMAIN response.estimates[1]
  /\ response.estimates[1].confidence = 75
  /\ response.estimates[2].confidence = 85

\* C15: for a valid batch of N dishes, in whatever order the N calls complete
\* and whichever per-dish computations fail, the response is sent with
\* exactly N items, and item i is the success or failure record of dish i.
C15_OrderPreserved ==
  /\ pc = "batch awaiting" => Len(settled) = Len(dishes.items)
  /\ BatchDone =>
       /\ response.status = 200
       /\ Len(response.estimates) = Len(dishes.items)
       /\ \A i \in 1..Len(dishes.items) :
            LET item == response.estimates[i]
            IN /\ settled[i].status = "fulfilled" =>
                    /\ "error" \notin DOMAIN item
                    /\ item.dish = trim(dishes.items[i].val)
               /\ settled[i].status = "rejected" =>
                    /\ IsFailureRecord(item)
                    /\ item.dish = dishes.items[i].val

C15_Witness ==
  /\ BatchDone
  /\ Len(dishes.items) = 2
  /\ dishes.items[1] # dishes.items[2]
  /\ settled[1].status = "rejected"
  /\ settled[2].status = "fulfilled"
  /\ IsFailureRecord(response.estimates[1])
  /\ response.estimates[2].dish = trim(dishes.items[2].val)

\* ------------------------------------------------------------ table lookup

\* C16: a name that normalizes to the empty key selects no table entry and
\* gets the absolute fallback factor with category "unknown".
C16_EmptyKeyIsNoMatch ==
  (pc = "calculated" /\ normalizedName = <<>>) =>
    /\ carbonData = UltimateFallback
    /\ resolved.category = String("unknown")

FirstHit(k) ==
  CHOOSE i \in 1..Len(CARBON_DATA) :
    /\ PartialHit(k, i)
    /\ \A h \in 1..(i - 1) : ~PartialHit(k, h)

\* C17: a key equal to a table key resolves to that entry, whatever earlier
\* entries contain it or are contained in it ("coconut" gets the coconut
\* entry, not coconut oil); any other key that some table key contains or is
\* contained in resolves to the first such entry in declaration order ("beef
\* and chicken" gets beef).
C17_ExactThenFirstSubstring ==
  pc = "calculated" =>
    /\ \A i \in 1..Len(CARBON_DATA) :
         CARBON_DATA[i].key = normalizedName => carbonData = Entry(i)
    /\ (~ExactMatch(normalizedName) /\ PartialMatch(normalizedName)) =>
         carbonData = Entry(FirstHit(normalizedName))
    /\ normalizedName = <<"c","o","c","o","n","u","t">> =>
         carbonData = [carbon_per_kg |-> 17, category |-> "fruits"]
    /\ normalizedName = <<"b","e","e","f"," ","a","n","d"," ","c","h","i","c","k","e","n">> =>
         carbonData = [carbon_per_kg |-> 600, category |-> "meat"]

C17_Witness ==
  /\ pc = "calculated"
  /\ normalizedName = <<"c","o","c","o","n","u","t">>
  /\ PartialHit(normalizedName, FirstHit(normalizedName))
  /\ CARBON_DATA[FirstHit(normalizedName)].key = <<"c","o","c","o","n","u","t"," ","o","i","l">>
  /\ carbonData = [carbon_per_kg |-> 17, category |-> "fruits"]

\* ------------------------------------------------ calculateCarbonFootprint

\* C18: calculateCarbonFootprint gives one resolved ingredient per raw
\* ingredient, in the same order; item i has the name and the quantity text
\* of raw item i, and the category of the factor found for it, which need not
\* be the category of raw item i.
C18_SameOrderNameQuantity ==
  Sent =>
    /\ Len(response.ingredients) = Len(llmResponse.ingredients)
    /\ \A i \in 1..Len(llmResponse.ingredients) :
         /\ response.ingredients[i].name = llmResponse.ingredients[i].name
         /\ response.ingredients[i].quantity = llmResponse.ingredients[i].estimated_quantity
         /\ response.ingredients[i].category =
              categoryOf(findCarbonData(
                normalizeIngredientName(llmResponse.ingredients[i].name.val)))

C18_Witness ==
  /\ Sent
  /\ Len(llmResponse.ingredients) = 2
  /\ llmResponse.ingredients[1] = Raw(<<"x","y","z","f","o","o","1","2","3">>, <<"1"," ","c","u","p">>, "meat")
  /\ llmResponse.ingredients[2] = Raw(<<"r","i","c","e">>, <<"2","0","0","g">>, "grains")
  /\ response.ingredients[1].name = String(<<"x","y","z","f","o","o","1","2","3">>)
  /\ response.ingredients[1].category = String("unknown")
  /\ response.ingredients[2].quantity = String(<<"2","0","0","g">>)

\* ---------------------------------------------------------- input checks

\* C19: every dish name handed to the text inference call, by POST /estimate
\* or for an item of POST /estimate/batch, is trimmed and has 1 to 200
\* characters.
C19_DishTrimmedAndBounded ==
  \A c \in 1..Len(inferenceCalls) :
    inferenceCalls[c].capability = "text" =>
      /\ inferenceCalls[c].dish = trim(inferenceCalls[c].dish)
      /\ Len(inferenceCalls[c].dish) >= 1
      /\ Len(inferenceCalls[c].dish) <= DishMax

\* the request of this run is an InvalidInput: a dish that is empty or blank
\* after trim or longer than 200 characters; no image, or one that is too
\* large or of another type; dishes that is no array of 1 to 10 non-empty
\* strings
InvalidInput ==
  \/ /\ body # Null
     /\ (trim(body.dish) = <<>> \/ Len(body.dish) > DishMax)
  \/ /\ body = Null /\ dishes = Null
     /\ \/ file = Null
        \/ file.size > maxSize
        \/ file.mimetype \notin allowedTypes
  \/ /\ dishes # Null
     /\ \/ dishes.type # "array"
        \/ Len(dishes.items) < 1
        \/ Len(dishes.items) > MaxBatch
        \/ \E i \in 1..Len(dishes.items) :
             \/ dishes.items[i].type # "string"
             \/ dishes.items[i].val = <<>>

\* C20: an InvalidInput request is answered with an error, no inference call
\* is ever issued for it, for no element of a batch either, and no estimate,
\* fallback or other, is computed for it.
C20_InvalidInputRejectedFirst ==
  InvalidInput =>
    /\ inferenceCalls = <<>>
    /\ pc \in {"received", "image received", "batch received", "done"}
    /\ upstream = Null /\ llmResponse = Null /\ visionResponse = Null
    /\ settled = <<>>
    /\ pc = "done" => response.status \in {400, 413}

C20_Witness ==
  /\ pc = "done"
  /\ dishes # Null
  /\ dishes.type = "array"
  /\ Len(dishes.items) = 2
  /\ dishes.items[1] = String(<<"P","i","z","z","a">>)
  /\ dishes.items[2] = String(<<>>)
  /\ response = BadRequest
  /\ inferenceCalls = <<>>

\* ------------------------------------------------------ category inference

CategoryOrder == <<"meat", "seafood", "dairy", "vegetables", "fruits",
                   "grains", "legumes", "nuts", "oils", "seasonings">>

\* some keyword of the category at position i occurs in the key k
HasKeyword(k, i) ==
  \E j \in 1..Len(categoryKeywords[i].keywords) :
    includes(k, categoryKeywords[i].keywords[j])

\* no table entry is found for the key k
NoTableEntry(k) ==
  ~ExactMatch(k) /\ ~PartialMatch(k) /\ k \notin ObjectPrototypeKeys

\* C22: when no table entry matches, the category is the first one, in the
\* order meat, seafood, dairy, vegetables, fruits, grains, legumes, nuts,
\* oils, seasonings, that has a keyword occurring in the key ("black pepper"
\* is vegetables), and the factor is that category's fallback constant, never
\* the absolute fallback "unknown".
C22_FirstCategoryInOrder ==
  /\ [i \in 1..Len(categoryKeywords) |-> categoryKeywords[i].category] = CategoryOrder
  /\ (pc = "calculated" /\ NoTableEntry(normalizedName)) =>
       /\ \A i \in 1..Len(CategoryOrder) :
            (HasKeyword(normalizedName, i)
             /\ \A h \in 1..(i - 1) : ~HasKeyword(normalizedName, h)) =>
              /\ carbonData.category = CategoryOrder[i]
              /\ carbonData.category # "unknown"
              /\ carbonData.carbon_per_kg > 0
              /\ \E f \in 1..Len(categoryFallbacks) :
                   /\ categoryFallbacks[f].category = CategoryOrder[i]
                   /\ categoryFallbacks[f].carbon_per_kg = carbonData.carbon_per_kg
       /\ normalizedName = <<"b","l","a","c","k"," ","p","e","p","p","e","r">> =>
            carbonData = [carbon_per_kg |-> 20, category |-> "vegetables"]

C22_Witness ==
  /\ pc = "calculated"
  /\ normalizedName = <<"b","l","a","c","k"," ","p","e","p","p","e","r">>
  /\ NoTableEntry(normalizedName)
  /\ HasKeyword(normalizedName, 4)
  /\ HasKeyword(normalizedName, 10)
  /\ carbonData = [carbon_per_kg |-> 20, category |-> "vegetables"]

\* ------------------------------------------------- serving sizes and kg

UnitKeywords ==
  {<<"k","g">>, <<"g">>, <<"l","b">>, <<"p","o","u","n","d">>, <<"o","z">>, <<"o","u","n","c","e">>, <<"c","u","p">>, <<"t","b","s","p">>,
   <<"t","a","b","l","e","s","p","o","o","n">>, <<"t","s","p">>, <<"t","e","a","s","p","o","o","n">>, <<"s","m","a","l","l">>, <<"m","e","d","i","u","m">>, <<"l","a","r","g","e">>,
   <<"p","i","e","c","e">>, <<"i","t","e","m">>}

\* the lower-cased text contains none of the unit keywords
NoUnitKeyword(q) == \A u \in UnitKeywords : ~includes(toLowerCase(q), u)

\* the first decimal number of the text, 0.1 when it has none
FirstNumber(q) == baseAmountOf(toLowerCase(q))

\* C23: a quantity text with no unit keyword parses to
\* min(max(n x 0.1, 0.05), 0.5) kg, n being its first decimal number or 0.1,
\* so to a mass in [0.05, 0.5]; a text containing "kg" parses to n kg, not to
\* n / 1000.
C23_ServingBandAndKg ==
  pc = "parsed" =>
    /\ NoUnitKeyword(quantity) =>
         /\ FrEq(mass, FrMin(FrMax(Scale(FirstNumber(quantity), 1, 10),
                                   Fraction(5, 100)),
                             Fraction(5, 10)))
         /\ ~FrLess(mass, Fraction(5, 100))
         /\ ~FrLess(Fraction(5, 10), mass)
    /\ includes(toLowerCase(quantity), <<"k","g">>) =>
         /\ FrEq(mass, FirstNumber(quantity))
         /\ FrLess(Zero, FirstNumber(quantity)) =>
              ~FrEq(mass, Scale(FirstNumber(quantity), 1, 1000))
    /\ quantity = <<"3">> => FrEq(mass, Fraction(3, 10))
    /\ quantity = <<"2","0","0">> => FrEq(mass, Fraction(5, 10))
    /\ quantity = <<"0">> => FrEq(mass, Fraction(5, 100))
    /\ quantity = <<"1",".","5","k","g">> => FrEq(mass, Fraction(15, 10))

C23_Witness ==
  /\ pc = "parsed"
  /\ quantity = <<"2","0","0"," ","a"," ","p","i","n","c","h">>
  /\ NoUnitKeyword(quantity)
  /\ FrEq(FirstNumber(quantity), Fraction(200, 1))
  /\ FrEq(mass, Fraction(5, 10))

\* ------------------------------------------------- table keys as raw names

\* the raw name is the key declared at position i of the table
NameIsKey(i) == ingredient.name.val = CARBON_DATA[i].key

\* C24: an ingredient whose raw name is a key declared in the table resolves,
\* after the normalizer has lower-cased it and stripped its plural "s", to
\* the carbon_per_kg and the category of that key's own entry.
C24_KeyRoundTrip ==
  pc = "calculated" =>
    \A i \in 1..Len(CARBON_DATA) :
      NameIsKey(i) =>
        /\ carbonData = Entry(i)
        /\ carbonData.carbon_per_kg = CARBON_DATA[i].carbon_per_kg
        /\ resolved.category = String(CARBON_DATA[i].category)

C24_Witness ==
  /\ pc = "calculated"
  /\ ingredient.name.val = <<"e","g","g","s">>
  /\ normalizedName = <<"e","g","g">>
  /\ ~ExactMatch(normalizedName)
  /\ carbonData = [carbon_per_kg |-> 42, category |-> "dairy"]

\* ------------------------------------------------- requests side by side

\* C21: no operation changes the table, and under every interleaving of the
\* requests in flight and of the stats query, the reply of each request is
\* the one it gets when it runs alone with the same upstream response.
C21_RequestsIsolated ==
  /\ table = CARBON_DATA
  /\ stats # Null => stats = getCarbonDataStats(CARBON_DATA)
  /\ \A r \in 1..Len(requests) :
       requests[r].pc = "done" =>
         requests[r].response = ReplyAlone(requests[r].dish, requests[r].upstream)

\* request 2 called first and is still in flight when request 1, with another
\* dish, has got its estimate
C21_Witness ==
  /\ pc = "serving"
  /\ Len(inferenceCalls) = 2
  /\ inferenceCalls[1].dish = <<"V","e","g","g","i","e"," ","B","u","r","g","e","r">>
  /\ inferenceCalls[2].dish = <<"P","i","z","z","a">>
  /\ requests[1].dish = <<"P","i","z","z","a">>
  /\ requests[1].pc = "done"
  /\ requests[1].response.status = 200
  /\ requests[1].response.dish = <<"P","i","z","z","a">>
  /\ requests[2].pc = "analyzed"
  /\ stats # Null
====
